---- MODULE Spec2Model ----
(***************************************************************************)
(* TranslationService (request scheduler + worker supervisor) and the      *)
(* translation worker it talks to, as a state machine.                     *)
(*                                                                         *)
(* Event-loop model: a handler's synchronous part is one step; promise     *)
(* continuations are entries of the microtask queue mq, run in FIFO order. *)
(* Worker messages and timers are macrotasks and only run when mq is       *)
(* empty; caller operations are invoked from tasks of the caller.          *)
(*                                                                         *)
(* Spec is the service with the worker seen through its envelopes;         *)
(* FairSpec adds the event loop's fairness; WorkerSpec is the worker's     *)
(* handleTranslateRequest together with the ModelManager pipeline cache;   *)
(* RetrySpec is one run of RetryService.withRetry; LifecycleSpec is the     *)
(* service with autoRecover, including destroy() and the periodic health   *)
(* check.                                                                  *)
(***************************************************************************)
EXTENDS Integers, Sequences, FiniteSets, TLC

\* ---- bounds of the model ----
MaxCalls == 3
MaxPriority == 1
MaxConcurrent == 2
MaxClock == 1
MaxDisturbances == 1
MaxInitCalls == 1
MaxRequests == 4
NumModels == 3
MaxCacheSize == 2
MaxChunks == 3
MaxIncidents == 1
MaxInFlight == 2
MaxRetries == 3

\* ---- program constants ----
DefaultPriority == 1
RestartRetries == 3
DefaultMaxRetries == 3
DefaultRetryDelay == 1000
DefaultMaxDelay == 10000
JitterRange == 300

ResetError == "WORKER_ERROR: Translation service was reset"
CrashError == "WORKER_ERROR: Worker error"
InitTimeoutError == "WORKER_INITIALIZATION_FAILED: Worker initialization timed out"
FatalError == "WORKER_INITIALIZATION_FAILED: Failed to restart translation service"
TimeoutError == "TRANSLATION_TIMEOUT"
AbortedError == "TRANSLATION_FAILED: Translation was cancelled"
LogError == "TRANSLATION_FAILED: totalChunks is not defined"

VARIABLES
  maxConcurrentRequests, now, gen,
  isInitialized, initPromise, initTimer, initWaiters,
  requestMap, requestQueue, activeRequests, isProcessingQueue,
  items, outcome, mq,
  inbox, outbox, wLoading, wInfer, wAborted, sentLog,
  runs, resets, cancels, healths, workerErrors, inits, inputs,
  alive, destroyed, healthTimers, autoRecover

\* the worker's ModelManager and its translate requests
VARIABLES
  modelConfig, pipelines, loadingProgress, loaderRequests,
  requests, received, incidents, lastRead

mvars == << modelConfig, pipelines, loadingProgress, loaderRequests,
            requests, received, incidents, lastRead >>

\* one run of RetryService.withRetry
VARIABLES
  retryOptions, attempt, lastError, invocations, thrown, ordinary, waits,
  retryPc, retryResult, cancelledAt

rvars == << retryOptions, attempt, lastError, invocations, thrown, ordinary, waits,
            retryPc, retryResult, cancelledAt >>

svars == << maxConcurrentRequests, now, gen,
           isInitialized, initPromise, initTimer, initWaiters,
           requestMap, requestQueue, activeRequests, isProcessingQueue,
           items, outcome, mq,
           inbox, outbox, wLoading, wInfer, wAborted, sentLog,
           runs, resets, cancels, healths, workerErrors, inits, inputs,
           alive, destroyed, healthTimers, autoRecover >>

vars == << svars, mvars, rvars >>

\* The whole state as one record, so that handlers compose as functions.
St ==
  [ maxConcurrentRequests |-> maxConcurrentRequests, now |-> now, gen |-> gen,
    isInitialized |-> isInitialized, initPromise |-> initPromise,
    initTimer |-> initTimer, initWaiters |-> initWaiters,
    requestMap |-> requestMap, requestQueue |-> requestQueue,
    activeRequests |-> activeRequests, isProcessingQueue |-> isProcessingQueue,
    items |-> items, outcome |-> outcome, mq |-> mq,
    inbox |-> inbox, outbox |-> outbox, wLoading |-> wLoading,
    wInfer |-> wInfer, wAborted |-> wAborted, sentLog |-> sentLog,
    runs |-> runs, resets |-> resets, cancels |-> cancels,
    healths |-> healths, workerErrors |-> workerErrors, inits |-> inits,
    inputs |-> inputs, alive |-> alive, destroyed |-> destroyed,
    healthTimers |-> healthTimers, autoRecover |-> autoRecover ]

Commit(s) ==
  /\ maxConcurrentRequests' = s.maxConcurrentRequests
  /\ now' = s.now
  /\ gen' = s.gen
  /\ isInitialized' = s.isInitialized
  /\ initPromise' = s.initPromise
  /\ initTimer' = s.initTimer
  /\ initWaiters' = s.initWaiters
  /\ requestMap' = s.requestMap
  /\ requestQueue' = s.requestQueue
  /\ activeRequests' = s.activeRequests
  /\ isProcessingQueue' = s.isProcessingQueue
  /\ items' = s.items
  /\ outcome' = s.outcome
  /\ mq' = s.mq
  /\ inbox' = s.inbox
  /\ outbox' = s.outbox
  /\ wLoading' = s.wLoading
  /\ wInfer' = s.wInfer
  /\ wAborted' = s.wAborted
  /\ sentLog' = s.sentLog
  /\ runs' = s.runs
  /\ resets' = s.resets
  /\ cancels' = s.cancels
  /\ healths' = s.healths
  /\ workerErrors' = s.workerErrors
  /\ inits' = s.inits
  /\ inputs' = s.inputs
  /\ alive' = s.alive
  /\ destroyed' = s.destroyed
  /\ healthTimers' = s.healthTimers
  /\ autoRecover' = s.autoRecover
  /\ UNCHANGED << mvars, rvars >>

Range(q) == { q[i] : i \in 1..Len(q) }

\* Math.pow for the exponents the program uses
RECURSIVE Pow(_, _)
Pow(b, e) == IF e = 0 THEN 1 ELSE b * Pow(b, e - 1)

\* ---- promises and timers ----

\* A promise settles once: later resolve/reject calls are no-ops.
Settle(s, c, o) ==
  IF s.outcome[c] = "pending" THEN [s EXCEPT !.outcome[c] = o] ELSE s

ClearTimeout(s, i) ==
  IF s.items[i].timer = "live" THEN [s EXCEPT !.items[i].timer = "cleared"] ELSE s

Task(k, a, b, r) == [k |-> k, a |-> a, b |-> b, r |-> r]

\* ---- requestMap: an insertion-ordered Map keyed by (kind, id) ----

MapIndex(m, kind, id) ==
  LET S == { i \in 1..Len(m) : m[i].kind = kind /\ m[i].id = id }
  IN IF S = {} THEN 0 ELSE CHOOSE i \in S : TRUE

MapSet(m, kind, id, owner) ==
  LET e == [kind |-> kind, id |-> id, owner |-> owner]
      i == MapIndex(m, kind, id)
  IN IF i = 0 THEN Append(m, e) ELSE [m EXCEPT ![i] = e]

MapDelete(m, kind, id) ==
  SelectSeq(m, LAMBDA e : ~(e.kind = kind /\ e.id = id))

\* ---- the channel ----

Msg(type, kind, id, target) ==
  [type |-> type, kind |-> kind, id |-> id, target |-> target]

\* a message posted on a closed port goes nowhere
sendWorkerMessage(s, m) ==
  [s EXCEPT !.inbox = IF s.alive THEN Append(@, m) ELSE @,
            !.sentLog = IF m.type = "TRANSLATE" THEN Append(@, m.id) ELSE @]

\* ---- initialize() ----

\* an initialize() that starts an attempt of its own on every call made
\* before the service is initialized
initialize_everyCall(s, w) ==
  IF s.isInitialized
    THEN [s EXCEPT !.mq = Append(@, Task(w.k, w.a, w.b, "ok"))]
  ELSE sendWorkerMessage(
         [s EXCEPT !.initPromise = "pending",
                   !.initTimer = TRUE,
                   !.requestMap = MapSet(@, "init", 0, 0),
                   !.initWaiters = Append(@, w)],
         Msg("INIT", "init", 0, 0))

initialize(s, w) ==
  IF s.isInitialized
    THEN [s EXCEPT !.mq = Append(@, Task(w.k, w.a, w.b, "ok"))]
  ELSE IF s.initPromise = "pending"
    THEN [s EXCEPT !.initWaiters = Append(@, w)]
  ELSE IF s.initPromise = "rejected"
    THEN [s EXCEPT !.mq = Append(@, Task(w.k, w.a, w.b, InitTimeoutError))]
  ELSE sendWorkerMessage(
         [s EXCEPT !.initPromise = "pending",
                   !.initTimer = TRUE,
                   !.requestMap = MapSet(@, "init", 0, 0),
                   !.initWaiters = Append(@, w)],
         Msg("INIT", "init", 0, 0))

\* Every awaiter of the init promise continues, in registration order.
SettleWaiters(s, r) ==
  [s EXCEPT !.mq = @ \o [i \in 1..Len(s.initWaiters) |->
                           Task(s.initWaiters[i].k, s.initWaiters[i].a,
                                s.initWaiters[i].b, r)],
            !.initWaiters = << >>]

\* setInterval of the periodic health check: one more timer is installed
setupAutoHealthCheck(s) == [s EXCEPT !.healthTimers = @ + 1]

InitResolve(s) ==
  LET s1 == [s EXCEPT !.initTimer = FALSE,
                      !.isInitialized = TRUE,
                      !.initPromise = "none"]
  IN SettleWaiters(IF s.autoRecover THEN setupAutoHealthCheck(s1) ELSE s1, "ok")

InitReject(s, err) ==
  SettleWaiters([s EXCEPT !.initTimer = FALSE,
                          !.initPromise = "none"], err)

\* ---- the queue ----

\* comparator of requestQueue.sort: a goes before b
Before(s, a, b) ==
  IF s.items[a].priority # s.items[b].priority
    THEN s.items[b].priority - s.items[a].priority < 0
    ELSE s.items[a].timestamp - s.items[b].timestamp < 0

RECURSIVE InsertSorted(_, _, _)
InsertSorted(s, q, x) ==
  IF q = << >> THEN << x >>
  ELSE IF Before(s, x, Head(q)) THEN << x >> \o q
  ELSE << Head(q) >> \o InsertSorted(s, Tail(q), x)

\* Array.prototype.sort is stable: insertion sort from the left.
RECURSIVE SortQueue(_, _)
SortQueue(s, q) ==
  IF q = << >> THEN << >>
  ELSE InsertSorted(s, SortQueue(s, SubSeq(q, 1, Len(q) - 1)), q[Len(q)])

executeTranslation(s, id) ==
  IF ~s.isInitialized
    THEN initialize(s, [k |-> "exec", a |-> id, b |-> 0])
    ELSE LET s1 == [s EXCEPT !.requestMap = MapSet(@, "t", id, id)]
             s2 == sendWorkerMessage(s1, Msg("TRANSLATE", "t", id, 0))
         IN [s2 EXCEPT !.mq = Append(@, Task("fin", id, 0, "ok"))]

\* a processQueue that dispatches whatever is queued on every call, with
\* neither the processing flag nor the limit
RECURSIVE processQueue_drain(_)
processQueue_drain(s) ==
  IF s.requestQueue # << >>
    THEN LET id == Head(s.requestQueue)
             s1 == [s EXCEPT !.requestQueue = Tail(@),
                             !.activeRequests = @ \cup {id}]
         IN processQueue_drain(executeTranslation(s1, id))
    ELSE s

RECURSIVE DispatchLoop(_)
DispatchLoop(s) ==
  IF s.requestQueue # << >> /\ Cardinality(s.activeRequests) < s.maxConcurrentRequests
    THEN LET id == Head(s.requestQueue)
             s1 == [s EXCEPT !.requestQueue = Tail(@),
                             !.activeRequests = @ \cup {id}]
         IN DispatchLoop(executeTranslation(s1, id))
    ELSE s

processQueue_reentrant(s) ==
  IF s.requestQueue = << >>
    THEN s
    ELSE LET s1 == DispatchLoop([s EXCEPT !.isProcessingQueue = TRUE])
         IN IF s1.activeRequests = {}
              THEN [s1 EXCEPT !.isProcessingQueue = FALSE]
              ELSE s1

processQueue(s) ==
  IF s.isProcessingQueue \/ s.requestQueue = << >>
    THEN s
    ELSE LET s1 == DispatchLoop([s EXCEPT !.isProcessingQueue = TRUE])
         IN IF s1.activeRequests = {}
              THEN [s1 EXCEPT !.isProcessingQueue = FALSE]
              ELSE s1

queueTranslationRequest(s, call, priority, orig) ==
  LET id == Len(s.items) + 1
      s1 == [s EXCEPT !.items = Append(@, [call |-> call, priority |-> priority,
                                           timestamp |-> s.now, orig |-> orig,
                                           timer |-> "live"])]
      s2 == [s1 EXCEPT !.requestQueue = SortQueue(s1, Append(@, id))]
  IN IF ~s2.isProcessingQueue THEN processQueue(s2) ELSE s2

\* the setTimeout callback of queueTranslationRequest
onRequestTimeout_keepsQueued(s, id) ==
  Settle([s EXCEPT !.items[id].timer = "fired",
                   !.activeRequests = @ \ {id}],
         s.items[id].call, TimeoutError)

onRequestTimeout(s, id) ==
  Settle([s EXCEPT !.items[id].timer = "fired",
                   !.requestQueue = SelectSeq(@, LAMBDA x : x # id),
                   !.activeRequests = @ \ {id}],
         s.items[id].call, TimeoutError)

\* the .finally() callback registered by processQueue
Finally(s, id) ==
  LET s1 == [s EXCEPT !.activeRequests = @ \ {id}]
  IN IF s1.requestQueue # << >> THEN processQueue(s1) ELSE s1

\* continuation of executeTranslation after its await of initialize()
ExecContinue(s, id, r) ==
  IF r = "ok"
    THEN LET s1 == [s EXCEPT !.requestMap = MapSet(@, "t", id, id)]
             s2 == sendWorkerMessage(s1, Msg("TRANSLATE", "t", id, 0))
         IN [s2 EXCEPT !.mq = Append(@, Task("fin", id, 0, "ok"))]
    ELSE LET s1 == Settle(ClearTimeout(s, id), s.items[id].call, r)
         IN [s1 EXCEPT !.mq = Append(@, Task("fin", id, 0, "ok"))]

\* continuation of translate() after its await of initialize()
TranslateContinue(s, call, priority, r) ==
  IF r = "ok"
    THEN queueTranslationRequest(s, call, priority, 0)
    ELSE Settle(s, call, r)

\* ---- destroy() and initializeWorker() ----

RECURSIVE ClearTimeouts(_, _)
ClearTimeouts(s, q) ==
  IF q = << >> THEN s
  ELSE ClearTimeouts(ClearTimeout(s, Head(q)), Tail(q))

destroy(s) ==
  [ClearTimeouts(s, s.requestQueue) EXCEPT
      !.requestQueue = << >>,
      !.activeRequests = {},
      !.requestMap = << >>,
      !.inbox = << >>, !.outbox = << >>,
      !.wLoading = {}, !.wInfer = {}, !.wAborted = {},
      !.alive = FALSE]

initializeWorker(s) ==
  [s EXCEPT !.gen = @ + 1, !.sentLog = << >>, !.alive = TRUE]

\* ---- restartWorker() ----

\* synchronous part of restartWorker, up to its await of initialize()
restartWorker(s, r, attemptRecovery, maxRetries, caller, callerId, victims) ==
  LET pendingQueue == s.requestQueue
      s1 == [s EXCEPT !.requestQueue = << >>, !.activeRequests = {}]
      s2 == [initializeWorker(destroy(s1)) EXCEPT !.isInitialized = FALSE]
      run == [recover |-> attemptRecovery, pending |-> pendingQueue,
              first |-> IF r > Len(s.runs) THEN pendingQueue ELSE s.runs[r].first,
              waits |-> IF r > Len(s.runs) THEN << >> ELSE s.runs[r].waits,
              retries |-> maxRetries, phase |-> "init",
              caller |-> caller, callerId |-> callerId, victims |-> victims]
      s3 == [s2 EXCEPT !.runs = IF r > Len(@) THEN Append(@, run)
                                 ELSE [@ EXCEPT ![r] = run]]
  IN initialize(s3, [k |-> "restart", a |-> r, b |-> 0])

\* recovery that forgets to re-queue what it took out of the queue
RECURSIVE Requeue_dropped(_, _)
Requeue_dropped(s, q) ==
  IF q = << >> THEN s
  ELSE Requeue_dropped(ClearTimeout(s, Head(q)), Tail(q))

RECURSIVE Requeue(_, _)
Requeue(s, q) ==
  IF q = << >> THEN s
  ELSE LET p == Head(q)
           s1 == ClearTimeout(s, p)
           s2 == queueTranslationRequest(s1, s1.items[p].call,
                                         s1.items[p].priority + 1, p)
       IN Requeue(s2, Tail(q))

RECURSIVE RejectPending(_, _, _)
RejectPending(s, q, err) ==
  IF q = << >> THEN s
  ELSE RejectPending(Settle(ClearTimeout(s, Head(q)), s.items[Head(q)].call, err),
                     Tail(q), err)

\* the value restartWorker returns reaches its caller
RunReturn(s, r, result) ==
  LET run == s.runs[r]
      s1 == [s EXCEPT !.runs[r].phase = IF result THEN "ok" ELSE "failed"]
  IN IF run.caller = "reset"
       THEN [s1 EXCEPT !.mq = Append(@, Task("resetRestarted", run.callerId, 0, "ok"))]
     ELSE IF run.caller = "health"
       THEN [s1 EXCEPT !.healths[run.callerId].result =
                           IF result THEN "true" ELSE "false",
                       !.healths[run.callerId].phase = "done"]
     ELSE s1

\* the backoff before the next attempt, by the attempts that are left
RetryDelay(maxRetries) == 1000 * Pow(2, 3 - maxRetries)

\* a restart that goes on while the count of attempts left is not negative
RestartContinue_oneMore(s, r, res) ==
  LET run == s.runs[r]
  IN IF res = "ok"
       THEN LET s1 == IF run.recover THEN Requeue(s, run.pending) ELSE s
                s2 == IF run.recover /\ s1.requestQueue # << >>
                        THEN processQueue(s1) ELSE s1
            IN RunReturn(s2, r, TRUE)
     ELSE IF run.retries >= 0
       THEN [s EXCEPT !.runs[r].phase = "backoff",
                      !.runs[r].waits = Append(@, RetryDelay(run.retries))]
     ELSE RunReturn(RejectPending(s, run.pending, FatalError), r, FALSE)

\* continuation of restartWorker after its await of initialize()
RestartContinue(s, r, res) ==
  LET run == s.runs[r]
  IN IF res = "ok"
       THEN LET s1 == IF run.recover THEN Requeue(s, run.pending) ELSE s
                s2 == IF run.recover /\ s1.requestQueue # << >>
                        THEN processQueue(s1) ELSE s1
            IN RunReturn(s2, r, TRUE)
     ELSE IF run.retries > 0
       THEN [s EXCEPT !.runs[r].phase = "backoff",
                      !.runs[r].waits = Append(@, RetryDelay(run.retries))]
     ELSE RunReturn(RejectPending(s, run.pending, FatalError), r, FALSE)

\* ---- handleWorkerMessage() ----

Resp(type, kind, id, payload) ==
  [type |-> type, kind |-> kind, id |-> id, payload |-> payload]

HealthPing(s, h, r) ==
  IF s.healths[h].ping = "pending"
    THEN [s EXCEPT !.healths[h].ping = r,
                   !.mq = Append(@, Task("health", h, 0, r))]
    ELSE s

CancelSettle(s, c, r, by) ==
  IF s.cancels[c].result = "pending"
    THEN [s EXCEPT !.cancels[c].result = r, !.cancels[c].by = by]
    ELSE s

\* the resolve callback stored in requestMap
EntryResolve(s, e, payload) ==
  IF e.kind = "t"
    THEN Settle(ClearTimeout(s, e.owner), s.items[e.owner].call, "resolved")
  ELSE IF e.kind = "init"
    THEN InitResolve(s)
  ELSE IF e.kind = "cancel"
    THEN CancelSettle([s EXCEPT !.cancels[e.owner].timer = FALSE], e.owner,
                      IF payload = "true" THEN "true" ELSE "false", "ack")
  ELSE HealthPing([s EXCEPT !.healths[e.owner].timer = FALSE], e.owner, "true")

\* the reject callback stored in requestMap
EntryReject(s, e, err) ==
  IF e.kind = "t"
    THEN Settle(ClearTimeout(s, e.owner), s.items[e.owner].call, err)
  ELSE IF e.kind = "init"
    THEN InitReject(s, err)
  ELSE IF e.kind = "cancel"
    THEN CancelSettle([s EXCEPT !.cancels[e.owner].timer = FALSE], e.owner, "rejected", "error")
  ELSE HealthPing([s EXCEPT !.healths[e.owner].timer = FALSE], e.owner, "false")

\* a handler that accepts a ready envelope whatever its id
handleWorkerMessage_anyReady(s, m) ==
  LET i == MapIndex(s.requestMap, m.kind, m.id)
  IN IF m.type = "PROGRESS" THEN s
     ELSE IF i = 0 THEN (IF m.type = "READY" THEN InitResolve(s) ELSE s)
     ELSE LET e == s.requestMap[i]
              s1 == IF m.type = "ERROR" THEN EntryReject(s, e, m.payload)
                    ELSE EntryResolve(s, e, m.payload)
          IN [s1 EXCEPT !.requestMap = MapDelete(@, m.kind, m.id)]

\* a handler that takes a progress envelope for a result
handleWorkerMessage_progressSettles(s, m) ==
  LET i == MapIndex(s.requestMap, m.kind, m.id)
  IN IF i = 0 THEN s
     ELSE LET e == s.requestMap[i]
              s1 == IF m.type = "ERROR" THEN EntryReject(s, e, m.payload)
                    ELSE EntryResolve(s, e, m.payload)
          IN [s1 EXCEPT !.requestMap = MapDelete(@, m.kind, m.id)]

\* a progress envelope goes to the progress callback only
handleWorkerMessage(s, m) ==
  LET i == MapIndex(s.requestMap, m.kind, m.id)
  IN IF m.type = "PROGRESS" THEN s
     ELSE IF i = 0 THEN s
     ELSE LET e == s.requestMap[i]
              s1 == IF m.type = "ERROR" THEN EntryReject(s, e, m.payload)
                    ELSE EntryResolve(s, e, m.payload)
          IN [s1 EXCEPT !.requestMap = MapDelete(@, m.kind, m.id)]

\* ---- handleWorkerError() ----

\* the requests that are queued or dispatched and still unanswered
Victims(s) ==
  Range(s.requestQueue) \cup
  { i \in 1..Len(s.items) :
      /\ MapIndex(s.requestMap, "t", i) # 0
      /\ s.outcome[s.items[i].call] = "pending" }

\* an error handler that notifies the translations only
RECURSIVE RejectAll_translationsOnly(_, _)
RejectAll_translationsOnly(s, m) ==
  IF m = << >> THEN s
  ELSE RejectAll_translationsOnly(
         IF Head(m).kind = "t" THEN EntryReject(s, Head(m), CrashError) ELSE s,
         Tail(m))

RECURSIVE RejectAll(_, _)
RejectAll(s, m) ==
  IF m = << >> THEN s
  ELSE RejectAll(EntryReject(s, Head(m), CrashError), Tail(m))

handleWorkerError(s) ==
  LET victims == Victims(s)
      s1 == RejectAll(s, s.requestMap)
      s2 == [s1 EXCEPT !.requestMap = << >>,
                       !.workerErrors = @ + 1]
  IN restartWorker(s2, Len(s2.runs) + 1, TRUE, RestartRetries, "error", 0, victims)

\* ---- checkWorkerHealth() ----

checkWorkerHealth(s) ==
  LET h == Len(s.healths) + 1
      s1 == [s EXCEPT !.healths = Append(@, [key |-> s.now, timer |-> TRUE,
                                              ping |-> "pending", phase |-> "ping",
                                              result |-> "none"]),
                      !.requestMap = MapSet(@, "ping", s.now, h)]
  IN sendWorkerMessage(s1, Msg("INIT", "ping", s.now, 0))

\* a health check that reports an unresponsive worker without restarting it
HealthContinue_reportOnly(s, h, r) ==
  [s EXCEPT !.healths[h].phase = "done",
            !.healths[h].result = IF r = "true" THEN "true" ELSE "false"]

\* continuation of checkWorkerHealth after its await of the ping promise
HealthContinue(s, h, r) ==
  IF r = "true"
    THEN [s EXCEPT !.healths[h].phase = "done", !.healths[h].result = "true"]
    ELSE restartWorker([s EXCEPT !.healths[h].phase = "restart"],
                       Len(s.runs) + 1, TRUE, RestartRetries, "health", h, Victims(s))

\* ---- cancelTranslation() ----

cancelTranslation(s, requestId) ==
  LET c == Len(s.cancels) + 1
      s1 == [s EXCEPT !.cancels = Append(@,
                 [target |-> requestId, key |-> s.now, timer |-> TRUE,
                  result |-> "pending", by |-> "none",
                  wasQueued |-> requestId \in Range(s.requestQueue),
                  wasDispatched |-> /\ MapIndex(s.requestMap, "t", requestId) # 0
                                    /\ s.outcome[s.items[requestId].call] = "pending"]),
                      !.requestMap = MapSet(@, "cancel", s.now, c)]
  IN sendWorkerMessage(s1, Msg("CANCEL", "cancel", s.now, requestId))

\* ---- resetService() ----

resetService(s) ==
  LET z == Len(s.resets) + 1
      pendingRequests == s.requestQueue
      s1 == [s EXCEPT !.resets = Append(@, [phase |-> "restart", victims |-> Victims(s)]),
                      !.requestQueue = << >>]
      s2 == RejectPending(s1, pendingRequests, ResetError)
      s3 == [s2 EXCEPT !.activeRequests = {}, !.isProcessingQueue = FALSE]
  IN restartWorker(s3, Len(s3.runs) + 1, FALSE, RestartRetries, "reset", z, {})

\* continuation of resetService after its await of restartWorker()
ResetContinue(s, z) ==
  initialize([s EXCEPT !.isInitialized = FALSE, !.resets[z].phase = "init"],
             [k |-> "resetInit", a |-> z, b |-> 0])

\* ---- the microtask queue ----

RunTask(s, t) ==
  IF t.k = "translate" THEN TranslateContinue(s, t.a, t.b, t.r)
  ELSE IF t.k = "exec" THEN ExecContinue(s, t.a, t.r)
  ELSE IF t.k = "fin" THEN Finally(s, t.a)
  ELSE IF t.k = "restart" THEN RestartContinue(s, t.a, t.r)
  ELSE IF t.k = "health" THEN HealthContinue(s, t.a, t.r)
  ELSE IF t.k = "resetRestarted" THEN ResetContinue(s, t.a)
  ELSE IF t.k = "resetInit"
    THEN [s EXCEPT !.resets[t.a].phase = IF t.r = "ok" THEN "done" ELSE "failed"]
  ELSE [s EXCEPT !.inits[t.a].result = t.r]

\* ---- actions ----

\* what handleTranslateRequest's validation makes of a request
Inputs == {"ok", "INVALID_INPUT", "UNSUPPORTED_LANGUAGE_PAIR"}

\* cancellations, resets, health checks, worker failures and calls with
\* invalid input so far
Disturbances ==
  Len(cancels) + Len(resets) + Len(healths) + workerErrors
    + Cardinality({ c \in 1..Len(inputs) : inputs[c] # "ok" })

ServiceInit ==
  /\ maxConcurrentRequests \in 1..MaxConcurrent
  /\ now = 0
  /\ gen = 1
  /\ isInitialized = FALSE
  /\ initPromise = "none"
  /\ initTimer = FALSE
  /\ initWaiters = << >>
  /\ requestMap = << >>
  /\ requestQueue = << >>
  /\ activeRequests = {}
  /\ isProcessingQueue = FALSE
  /\ items = << >>
  /\ outcome = << >>
  /\ mq = << >>
  /\ inbox = << >>
  /\ outbox = << >>
  /\ wLoading = {}
  /\ wInfer = {}
  /\ wAborted = {}
  /\ sentLog = << >>
  /\ runs = << >>
  /\ resets = << >>
  /\ cancels = << >>
  /\ healths = << >>
  /\ workerErrors = 0
  /\ inits = << >>
  /\ inputs = << >>
  /\ alive = TRUE
  /\ destroyed = FALSE
  /\ healthTimers = 0

\* ModelManager after construction, configured by the worker's init handler
ManagerInit ==
  /\ modelConfig = [cacheModels |-> TRUE, quantized |-> TRUE,
                    maxCacheSize |-> MaxCacheSize]
  /\ pipelines = << >>
  /\ loadingProgress = [k \in {} |-> 0]
  /\ loaderRequests = {}
  /\ requests = [i \in {} |-> 0]
  /\ received = 0
  /\ incidents = 0
  /\ lastRead = [model |-> 0, quantized |-> TRUE]

DEFAULT_RETRY_OPTIONS ==
  [maxRetries |-> DefaultMaxRetries, retryDelay |-> DefaultRetryDelay,
   retryMultiplier |-> [num |-> 3, den |-> 2],
   maxDelay |-> DefaultMaxDelay, shouldRetry |-> "none"]

\* a value that is not an error of the operation: null, the pending future,
\* the operation's return value
Outcome(what) == [type |-> what, network |-> FALSE]

\* no run of withRetry has been started
RetryInit ==
  /\ retryOptions = DEFAULT_RETRY_OPTIONS
  /\ attempt = 0
  /\ lastError = Outcome("null")
  /\ invocations = 0
  /\ thrown = Outcome("null")
  /\ ordinary = TRUE
  /\ waits = << >>
  /\ retryPc = "idle"
  /\ retryResult = Outcome("pending")
  /\ cancelledAt = 0

\* the default configuration has no autoRecover
Init == ServiceInit /\ autoRecover = FALSE /\ ManagerInit /\ RetryInit

\* a service constructed with autoRecover: true
LifecycleInit == ServiceInit /\ autoRecover = TRUE /\ ManagerInit /\ RetryInit

\* Date.now() advances
Tick ==
  /\ now < MaxClock
  /\ Commit([St EXCEPT !.now = @ + 1])

\* the caller invokes initialize(); a caller does not go on using a service
\* it has destroyed
Initialize ==
  /\ mq = << >>
  /\ ~destroyed
  /\ Len(inits) < MaxInitCalls
  /\ LET n == Len(inits) + 1
         s1 == [St EXCEPT !.inits = Append(@, [afterFailure |-> initPromise = "rejected",
                                               sent |-> FALSE,
                                               result |-> "pending"])]
         s2 == initialize(s1, [k |-> "user", a |-> n, b |-> 0])
     IN Commit([s2 EXCEPT !.inits[n].sent = Len(s2.inbox) > Len(s1.inbox)])

\* the caller invokes translate(text, from, to, {priority: p}); input tells
\* what the worker's validation will make of the text and the language pair
Translate ==
  /\ mq = << >>
  /\ ~destroyed
  /\ Len(outcome) < MaxCalls
  /\ \E p \in 0..MaxPriority, input \in Inputs :
       LET priority == IF p = 0 THEN DefaultPriority ELSE p
           call == Len(outcome) + 1
           s1 == [St EXCEPT !.outcome = Append(@, "pending"),
                            !.inputs = Append(@, input)]
       IN /\ input # "ok" => Disturbances < MaxDisturbances
          /\ Commit(IF s1.isInitialized
                      THEN queueTranslationRequest(s1, call, priority, 0)
                      ELSE initialize(s1, [k |-> "translate", a |-> call, b |-> priority]))

CancelTranslation ==
  /\ mq = << >>
  /\ ~destroyed
  /\ Disturbances < MaxDisturbances
  /\ \E id \in 1..Len(items) : Commit(cancelTranslation(St, id))

ResetService ==
  /\ mq = << >>
  /\ ~destroyed
  /\ Disturbances < MaxDisturbances
  /\ Commit(resetService(St))

CheckWorkerHealth ==
  /\ mq = << >>
  /\ ~destroyed
  /\ Disturbances < MaxDisturbances
  /\ Commit(checkWorkerHealth(St))

RunMicrotask ==
  /\ mq # << >>
  /\ Commit(RunTask([St EXCEPT !.mq = Tail(@)], Head(mq)))

\* worker.onerror / onmessageerror fires, on a worker that exists
WorkerError ==
  /\ mq = << >>
  /\ alive
  /\ Disturbances < MaxDisturbances
  /\ Commit(handleWorkerError(St))

\* port.onmessage fires with the next envelope from the worker
Deliver ==
  /\ mq = << >>
  /\ outbox # << >>
  /\ Commit(handleWorkerMessage([St EXCEPT !.outbox = Tail(@)], Head(outbox)))

\* the per-request timeout of queueTranslationRequest fires
RequestTimeout ==
  /\ mq = << >>
  /\ \E id \in 1..Len(items) :
       /\ items[id].timer = "live"
       /\ Commit(onRequestTimeout(St, id))

\* the 10 s timeout of initialize() fires
InitTimeout ==
  /\ mq = << >>
  /\ initTimer
  /\ Commit(SettleWaiters([St EXCEPT !.initTimer = FALSE,
                                     !.requestMap = MapDelete(@, "init", 0),
                                     !.initPromise = "rejected"],
                          InitTimeoutError))

\* the 5 s timeout of cancelTranslation() fires
CancelTimeout ==
  /\ mq = << >>
  /\ \E c \in 1..Len(cancels) :
       /\ cancels[c].timer
       /\ Commit(CancelSettle([St EXCEPT
                                 !.cancels[c].timer = FALSE,
                                 !.requestMap = MapDelete(@, "cancel", cancels[c].key)],
                              c, "false", "timeout"))

\* the 2 s timeout of the health-check ping fires
PingTimeout ==
  /\ mq = << >>
  /\ \E h \in 1..Len(healths) :
       /\ healths[h].timer
       /\ Commit(HealthPing([St EXCEPT
                               !.healths[h].timer = FALSE,
                               !.requestMap = MapDelete(@, "ping", healths[h].key)],
                            h, "false"))

\* the backoff timer of a failed restart attempt fires
RestartRetry ==
  /\ mq = << >>
  /\ \E r \in 1..Len(runs) :
       /\ runs[r].phase = "backoff"
       /\ Commit(restartWorker(St, r, runs[r].recover, runs[r].retries - 1,
                               runs[r].caller, runs[r].callerId, runs[r].victims))

\* ---- the worker ----

\* the progress envelopes of a short text from the start of the translating
\* phase to the await of the translator
Translating(id) ==
  << Resp("PROGRESS", "t", id, "0"), Resp("PROGRESS", "t", id, "50") >>

\* handleMessage: the worker takes the next envelope from its port
WorkerReceive ==
  /\ inbox # << >>
  /\ LET m == Head(inbox)
         s == [St EXCEPT !.inbox = Tail(@)]
     IN IF m.type = "INIT"
          THEN Commit([s EXCEPT !.outbox = Append(@, Resp("READY", m.kind, m.id, "ok"))])
        ELSE IF m.type = "TRANSLATE" /\ s.inputs[s.items[m.id].call] # "ok"
          THEN Commit([s EXCEPT !.outbox = Append(@, Resp("ERROR", m.kind, m.id,
                                                          s.inputs[s.items[m.id].call]))])
        ELSE IF m.type = "TRANSLATE"
          THEN \E cached \in BOOLEAN :
                 Commit(IF cached
                          THEN [s EXCEPT !.wInfer = @ \cup {m.id},
                                         !.outbox = @ \o Translating(m.id)]
                          ELSE [s EXCEPT !.wLoading = @ \cup {m.id}])
        ELSE IF m.target \in s.wLoading
          THEN Commit([s EXCEPT !.wLoading = @ \ {m.target},
                                !.wAborted = @ \cup {m.target},
                                !.outbox = Append(@, Resp("RESULT", m.kind, m.id, "true"))])
          ELSE Commit([s EXCEPT !.outbox = Append(@, Resp("RESULT", m.kind, m.id, "false"))])

\* the model load of getPipeline completes
WorkerLoaded ==
  \E id \in wLoading :
    Commit([St EXCEPT !.wLoading = @ \ {id}, !.wInfer = @ \cup {id},
                      !.outbox = @ \o Translating(id)])

\* the aborted load unwinds: handleTranslateRequest answers with an error
WorkerAborted ==
  \E id \in wAborted :
    Commit([St EXCEPT !.wAborted = @ \ {id},
                      !.outbox = Append(@, Resp("ERROR", "t", id, AbortedError))])

\* model load or inference throws
WorkerFailed ==
  \E id \in wLoading \cup wInfer :
    Commit([St EXCEPT !.wLoading = @ \ {id}, !.wInfer = @ \ {id},
                      !.outbox = Append(@, Resp("ERROR", "t", id,
                           IF id \in wLoading THEN "MODEL_LOAD_FAILED"
                                              ELSE "TRANSLATION_FAILED"))])

\* inference completes: the result envelope is sent, then the log statement
\* that follows it reads totalChunks outside its block, and the catch block
\* answers the ReferenceError with an error envelope
WorkerResult ==
  \E id \in wInfer :
    Commit([St EXCEPT !.wInfer = @ \ {id},
                      !.outbox = @ \o << Resp("PROGRESS", "t", id, "100"),
                                         Resp("RESULT", "t", id, "ok"),
                                         Resp("ERROR", "t", id, LogError) >>])

\* the caller invokes destroy()
Destroy ==
  /\ mq = << >>
  /\ ~destroyed
  /\ Commit([destroy(St) EXCEPT !.destroyed = TRUE])

\* a periodic health-check timer fires
AutoHealthCheck ==
  /\ mq = << >>
  /\ healthTimers > 0
  /\ Disturbances < MaxDisturbances
  /\ Commit(checkWorkerHealth(St))

Next ==
  \/ Tick
  \/ Initialize
  \/ Translate
  \/ CancelTranslation
  \/ ResetService
  \/ CheckWorkerHealth
  \/ RunMicrotask
  \/ WorkerError
  \/ Deliver
  \/ RequestTimeout
  \/ InitTimeout
  \/ CancelTimeout
  \/ PingTimeout
  \/ RestartRetry
  \/ WorkerReceive
  \/ WorkerLoaded
  \/ WorkerAborted
  \/ WorkerFailed
  \/ WorkerResult

Spec == Init /\ [][Next]_vars

\* ---- ModelManager: the worker's pipeline cache ----

Models == 1..NumModels
ProgressValues == {0, 50, 100}

\* the cache key of getPipeline under the configuration in force
Key(model) == [model |-> model, quantized |-> modelConfig.quantized]

\* pipelines is a Map: a sequence of entries in insertion order
CacheIndex(c, key) ==
  LET S == { i \in 1..Len(c) : c[i].key = key }
  IN IF S = {} THEN 0 ELSE CHOOSE i \in S : TRUE

\* Map.set: a key that is already present keeps its place
CacheSet(c, key, pipe) ==
  LET i == CacheIndex(c, key)
      e == [key |-> key, pipe |-> pipe]
  IN IF i = 0 THEN Append(c, e) ELSE [c EXCEPT ![i] = e]

\* a cache that moves an entry it hands out to the newest place
CacheGet_refresh(c, i) ==
  [pipe |-> c[i].pipe,
   cache |-> Append(SelectSeq(c, LAMBDA e : e.key # c[i].key), c[i])]

\* Map.get: the entry's callable; the map itself is left as it is
CacheGet(c, i) == [pipe |-> c[i].pipe, cache |-> c]

\* a cache that makes room by dropping its newest entry
addToCache_evictNewest(c, key, pipe) ==
  LET c1 == IF modelConfig.maxCacheSize # 0 /\ Len(c) >= modelConfig.maxCacheSize
                 /\ c # << >>
              THEN SubSeq(c, 1, Len(c) - 1) ELSE c
  IN CacheSet(c1, key, pipe)

addToCache(c, key, pipe) ==
  LET c1 == IF modelConfig.maxCacheSize # 0 /\ Len(c) >= modelConfig.maxCacheSize
                 /\ c # << >>
              THEN Tail(c) ELSE c
  IN CacheSet(c1, key, pipe)

ProgressSet(lp, key, p) ==
  [k \in DOMAIN lp \cup {key} |-> IF k = key THEN p ELSE lp[k]]

ProgressDelete(lp, key) == [k \in DOMAIN lp \ {key} |-> lp[k]]

\* ---- the worker's handleTranslateRequest ----

Env(type, phase, value) == [type |-> type, phase |-> phase, value |-> value]

\* sendResponse for the request: out is what the worker has emitted for its id
Emit(r, e) == [r EXCEPT !.out = Append(@, e)]

\* the progress envelopes of the next batch of at most two chunks
NextBatch(r) ==
  LET i == r.batch
      r1 == Emit(r, Env("PROGRESS", "translating", (i * 100) \div r.chunks))
      r2 == IF i + 1 < r.chunks
              THEN Emit(r1, Env("PROGRESS", "translating", ((i + 1) * 100) \div r.chunks))
              ELSE r1
  IN [r2 EXCEPT !.batch = i + 2]

\* from the return of getPipeline to the first await of the translator
StartTranslating(r, pipe) ==
  LET r1 == Emit([r EXCEPT !.pipe = pipe, !.pc = "infer"],
                 Env("PROGRESS", "translating", 0))
  IN IF r.chunks = 0
       THEN Emit(r1, Env("PROGRESS", "translating", 50))
       ELSE NextBatch(r1)

\* the translation is complete: progress 100 and the result envelope, then
\* the log statement that reads totalChunks outside its block throws and the
\* catch block answers with an error envelope
Complete(r) ==
  Emit(Emit(Emit([r EXCEPT !.pc = "done"],
                 Env("PROGRESS", "translating", 100)),
            Env("RESULT", "none", "ok")),
       Env("ERROR", "none", LogError))

Fail(r, err) == Emit([r EXCEPT !.pc = "done"], Env("ERROR", "none", err))

LoadReports(r) ==
  { k \in 1..Len(r.out) : r.out[k].phase = "model-loading" }

\* requests the worker is still working on
InFlight == { i \in DOMAIN requests : requests[i].pc # "done" }

\* requests maps the ids the worker holds to what it knows and has emitted
\* about them; a finished request is forgotten when the next one arrives
Admit(id, r) ==
  [i \in InFlight \cup {id} |-> IF i = id THEN r ELSE requests[i]]

\* a translate envelope arrives: validation and the synchronous part of
\* getPipeline
ReceiveTranslate ==
  /\ received < MaxRequests
  /\ received' = received + 1
  /\ Cardinality(InFlight) < MaxInFlight
  /\ \E model \in Models, chunks \in {0, MaxChunks},
        input \in {"ok", "INVALID_INPUT", "UNSUPPORTED_LANGUAGE_PAIR"} :
       LET id == received + 1
           key == Key(model)
           i == CacheIndex(pipelines, key)
           r == [model |-> model, key |-> key, chunks |-> chunks, pc |-> "load",
                 hit |-> FALSE, pipe |-> 0, batch |-> 0, aborted |-> FALSE,
                 out |-> << >>]
       IN IF input # "ok"
            THEN /\ incidents < MaxIncidents
                 /\ chunks = 0
                 /\ incidents' = incidents + 1
                 /\ requests' = Admit(id, Fail(r, input))
                 /\ UNCHANGED << loadingProgress, loaderRequests, pipelines, lastRead >>
          ELSE IF i # 0 /\ modelConfig.cacheModels
            THEN /\ requests' = Admit(id, StartTranslating([r EXCEPT !.hit = TRUE],
                                                            CacheGet(pipelines, i).pipe))
                 /\ pipelines' = CacheGet(pipelines, i).cache
                 /\ lastRead' = key
                 /\ UNCHANGED << loadingProgress, loaderRequests, incidents >>
            ELSE /\ requests' = Admit(id, r)
                 /\ loadingProgress' = ProgressSet(loadingProgress, key, 0)
                 /\ loaderRequests' = loaderRequests \cup {id}
                 /\ UNCHANGED << incidents, pipelines, lastRead >>
  /\ UNCHANGED << modelConfig, svars, rvars >>

\* the loader reports progress through sendProgress
LoadProgress ==
  \E id \in DOMAIN requests, p \in ProgressValues :
    /\ requests[id].pc = "load"
    /\ incidents < MaxIncidents
    /\ incidents' = incidents + 1
    /\ \A k \in LoadReports(requests[id]) : requests[id].out[k].value < p
    /\ loadingProgress' = ProgressSet(loadingProgress, requests[id].key, p)
    /\ requests' = [requests EXCEPT
                      ![id] = Emit(@, Env("PROGRESS", "model-loading", p))]
    /\ UNCHANGED << modelConfig, pipelines, loaderRequests, received, lastRead, svars, rvars >>

\* the load completes: the rest of getPipeline, then handleTranslateRequest
\* up to its await of the translator
LoadDone ==
  \E id \in DOMAIN requests :
    /\ requests[id].pc = "load"
    /\ pipelines' = IF modelConfig.cacheModels
                       THEN addToCache(pipelines, requests[id].key, id)
                       ELSE pipelines
    /\ loadingProgress' = ProgressDelete(loadingProgress, requests[id].key)
    /\ loaderRequests' = loaderRequests \ {id}
    /\ requests' = [requests EXCEPT ![id] = StartTranslating(@, id)]
    /\ UNCHANGED << modelConfig, incidents, received, lastRead, svars, rvars >>

\* a failing load that leaves its progress entry behind
LoadFail_keepsProgress ==
  \E id \in DOMAIN requests :
    /\ requests[id].pc = "load"
    /\ incidents < MaxIncidents
    /\ incidents' = incidents + 1
    /\ loaderRequests' = loaderRequests \ {id}
    /\ requests' = [requests EXCEPT ![id] = Fail(@, "MODEL_LOAD_FAILED")]
    /\ UNCHANGED << modelConfig, pipelines, loadingProgress, received, lastRead, svars, rvars >>

\* the load fails
LoadFail ==
  \E id \in DOMAIN requests :
    /\ requests[id].pc = "load"
    /\ incidents < MaxIncidents
    /\ incidents' = incidents + 1
    /\ loadingProgress' = ProgressDelete(loadingProgress, requests[id].key)
    /\ loaderRequests' = loaderRequests \ {id}
    /\ requests' = [requests EXCEPT ![id] = Fail(@, "MODEL_LOAD_FAILED")]
    /\ UNCHANGED << modelConfig, pipelines, received, lastRead, svars, rvars >>

\* ModelManager.cancelRequest(id), called for a cancel envelope
CancelRequest ==
  \E id \in DOMAIN requests :
    /\ incidents < MaxIncidents
    /\ incidents' = incidents + 1
    /\ IF id \in loaderRequests
         THEN /\ loaderRequests' = loaderRequests \ {id}
              /\ requests' = [requests EXCEPT ![id].aborted = TRUE]
         ELSE UNCHANGED << loaderRequests, requests >>
    /\ UNCHANGED << modelConfig, pipelines, loadingProgress, received, lastRead, svars, rvars >>

\* the aborted load rejects with an AbortError
LoadAborted ==
  \E id \in DOMAIN requests :
    /\ requests[id].pc = "load"
    /\ requests[id].aborted
    /\ loadingProgress' = ProgressDelete(loadingProgress, requests[id].key)
    /\ loaderRequests' = loaderRequests \ {id}
    /\ requests' = [requests EXCEPT ![id] = Fail(@, AbortedError)]
    /\ UNCHANGED << modelConfig, pipelines, incidents, received, lastRead, svars, rvars >>

\* the translator returns for the text or for the current batch of chunks
InferDone ==
  \E id \in DOMAIN requests :
    /\ requests[id].pc = "infer"
    /\ requests' = [requests EXCEPT
                      ![id] = IF @.chunks = 0 \/ @.batch >= @.chunks
                                THEN Complete(@) ELSE NextBatch(@)]
    /\ UNCHANGED << modelConfig, pipelines, loadingProgress, loaderRequests,
                    incidents, received, lastRead, svars, rvars >>

\* the translator throws
InferFail ==
  \E id \in DOMAIN requests :
    /\ requests[id].pc = "infer"
    /\ incidents < MaxIncidents
    /\ incidents' = incidents + 1
    /\ requests' = [requests EXCEPT ![id] = Fail(@, "TRANSLATION_FAILED")]
    /\ UNCHANGED << modelConfig, pipelines, loadingProgress, loaderRequests,
                    received, lastRead, svars, rvars >>

\* ModelManager.setConfig(config)
SetConfig ==
  /\ incidents < MaxIncidents
  /\ incidents' = incidents + 1
  /\ \/ modelConfig' = [modelConfig EXCEPT !.cacheModels = ~@]
     \/ modelConfig' = [modelConfig EXCEPT !.quantized = ~@]
     \/ \E n \in 1..MaxCacheSize :
          /\ n # modelConfig.maxCacheSize
          /\ modelConfig' = [modelConfig EXCEPT !.maxCacheSize = n]
  /\ UNCHANGED << pipelines, loadingProgress, loaderRequests, requests, received, lastRead, svars, rvars >>

\* ModelManager.removeFromCache(task, model), for the key under the
\* configuration in force
RemoveFromCache ==
  /\ incidents < MaxIncidents
  /\ incidents' = incidents + 1
  /\ \E model \in Models :
       pipelines' = SelectSeq(pipelines, LAMBDA e : e.key # Key(model))
  /\ UNCHANGED << modelConfig, loadingProgress, loaderRequests, requests, received,
                  lastRead, svars, rvars >>

\* ModelManager.clearCache()
ClearCache ==
  /\ incidents < MaxIncidents
  /\ incidents' = incidents + 1
  /\ pipelines' = << >>
  /\ UNCHANGED << modelConfig, loadingProgress, loaderRequests, requests, received,
                  lastRead, svars, rvars >>

WorkerNext ==
  \/ ReceiveTranslate
  \/ LoadProgress
  \/ LoadDone
  \/ LoadFail
  \/ CancelRequest
  \/ LoadAborted
  \/ InferDone
  \/ InferFail
  \/ SetConfig
  \/ RemoveFromCache
  \/ ClearCache

WorkerSpec == Init /\ [][WorkerNext]_vars

\* ---- RetryService ----

OptionFields == {"maxRetries", "retryDelay", "retryMultiplier", "maxDelay", "shouldRetry"}

\* the options a caller passes; a multiplier is the fraction num/den, a
\* maxDelay of 0 stands for a missing one, shouldRetry names the predicate
OptionValues ==
  [maxRetries : 0..MaxRetries,
   retryDelay : {DefaultRetryDelay},
   retryMultiplier : {[num |-> 3, den |-> 2], [num |-> 2, den |-> 1], [num |-> 5, den |-> 1]},
   maxDelay : {0, 3000, DefaultMaxDelay},
   shouldRetry : {"none", "always", "never"}]

\* { ...DEFAULT_RETRY_OPTIONS, ...options } for the fields the caller gave
MergeOptions(given, o) ==
  [maxRetries |-> IF "maxRetries" \in given THEN o.maxRetries
                  ELSE DEFAULT_RETRY_OPTIONS.maxRetries,
   retryDelay |-> IF "retryDelay" \in given THEN o.retryDelay
                  ELSE DEFAULT_RETRY_OPTIONS.retryDelay,
   retryMultiplier |-> IF "retryMultiplier" \in given THEN o.retryMultiplier
                       ELSE DEFAULT_RETRY_OPTIONS.retryMultiplier,
   maxDelay |-> IF "maxDelay" \in given THEN o.maxDelay
                ELSE DEFAULT_RETRY_OPTIONS.maxDelay,
   shouldRetry |-> IF "shouldRetry" \in given THEN o.shouldRetry
                   ELSE DEFAULT_RETRY_OPTIONS.shouldRetry]

\* TranslationErrorType
ErrorKinds ==
  {"MODEL_LOAD_FAILED", "MODEL_NOT_FOUND", "MODEL_INITIALIZATION_FAILED",
   "TRANSLATION_FAILED", "TRANSLATION_TIMEOUT", "INVALID_INPUT",
   "UNSUPPORTED_LANGUAGE_PAIR", "WORKER_ERROR", "WORKER_INITIALIZATION_FAILED",
   "WORKER_COMMUNICATION_ERROR", "NETWORK_ERROR", "MODEL_DOWNLOAD_FAILED",
   "UNKNOWN_ERROR"}

\* what the operation can throw: a TranslationError of some kind, or a plain
\* Error (type "none") that is or is not a network error by name or message
Errors ==
  { [type |-> k, network |-> FALSE] : k \in ErrorKinds }
    \cup { [type |-> "none", network |-> b] : b \in BOOLEAN }

\* a lookup that counts rejected input among the recoverable kinds
isErrorRecoverable_inputToo(errorType) ==
  errorType \in {"NETWORK_ERROR", "TRANSLATION_TIMEOUT", "WORKER_ERROR", "INVALID_INPUT"}

isErrorRecoverable(errorType) ==
  errorType \in {"NETWORK_ERROR", "TRANSLATION_TIMEOUT", "WORKER_ERROR"}

shouldRetry(error, a, options) ==
  IF a > options.maxRetries THEN FALSE
  ELSE IF options.shouldRetry # "none" THEN options.shouldRetry = "always"
  ELSE IF error.type # "none" THEN isErrorRecoverable(error.type)
  ELSE error.network

Min(a, b) == IF a <= b THEN a ELSE b

\* Math.random() * 300, to the millisecond
Jitters == {0, JitterRange \div 2, JitterRange - 1}

\* retryDelay * retryMultiplier^(attempt - 1); the division is exact for the
\* delays and multipliers of OptionValues
Backoff(a, options) ==
  (options.retryDelay * Pow(options.retryMultiplier.num, a - 1))
     \div Pow(options.retryMultiplier.den, a - 1)

\* a backoff whose exponent is the attempt number itself
calculateDelay_exponentOff(a, options, jitter) ==
  IF options.maxDelay # 0
    THEN Min(Backoff(a + 1, options) + jitter, options.maxDelay)
    ELSE Backoff(a + 1, options) + jitter

\* a backoff that caps the delay before the jitter is added
calculateDelay_capFirst(a, options, jitter) ==
  IF options.maxDelay # 0
    THEN Min(Backoff(a, options), options.maxDelay) + jitter
    ELSE Backoff(a, options) + jitter

calculateDelay(a, options, jitter) ==
  IF options.maxDelay # 0
    THEN Min(Backoff(a, options) + jitter, options.maxDelay)
    ELSE Backoff(a, options) + jitter

\* withRetry(fn, options) up to its first await of fn()
WithRetry ==
  /\ retryPc = "idle"
  /\ \E given \in SUBSET OptionFields, o \in OptionValues :
       retryOptions' = MergeOptions(given, o)
  /\ invocations' = 1
  /\ retryPc' = "call"
  /\ UNCHANGED << attempt, lastError, thrown, ordinary, waits, retryResult,
                  cancelledAt, svars, mvars >>

\* fn() resolves: withRetry returns its value
FnResolves ==
  /\ retryPc = "call"
  /\ retryPc' = "resolved"
  /\ retryResult' = Outcome("Success")
  /\ thrown' = Outcome("null")
  /\ UNCHANGED << retryOptions, attempt, lastError, invocations, ordinary, waits,
                  cancelledAt, svars, mvars >>

\* fn() rejects: the catch block, up to the await of the backoff timer or
\* to the throw after the loop
FnRejects ==
  /\ retryPc = "call"
  /\ \E error \in Errors, jitter \in Jitters :
       /\ thrown' = error
       /\ ordinary' = (ordinary /\ error = [type |-> "none", network |-> FALSE])
       /\ lastError' = error
       /\ attempt' = attempt + 1
       /\ IF shouldRetry(error, attempt + 1, retryOptions)
            THEN /\ waits' = Append(waits, calculateDelay(attempt + 1, retryOptions, jitter))
                 /\ retryPc' = "wait"
                 /\ UNCHANGED retryResult
            ELSE /\ jitter = 0
                 /\ retryPc' = "rejected"
                 /\ retryResult' = error
                 /\ UNCHANGED waits
  /\ UNCHANGED << retryOptions, invocations, cancelledAt, svars, mvars >>

\* the backoff timer fires: the loop condition, then the next fn()
BackoffElapsed ==
  /\ retryPc = "wait"
  /\ IF attempt <= retryOptions.maxRetries
       THEN /\ invocations' = invocations + 1
            /\ retryPc' = "call"
            /\ UNCHANGED retryResult
       ELSE /\ retryPc' = "rejected"
            /\ retryResult' = lastError
            /\ UNCHANGED invocations
  /\ UNCHANGED << retryOptions, attempt, lastError, thrown, ordinary, waits,
                  cancelledAt, svars, mvars >>

\* the caller gives the run up during a backoff wait, after cancelledAt
\* invocations; withRetry takes no signal and returns no handle, so nothing
\* of the run changes
CancelRetry ==
  /\ retryPc = "wait"
  /\ cancelledAt = 0
  /\ cancelledAt' = invocations
  /\ UNCHANGED << retryOptions, attempt, lastError, invocations, thrown, ordinary,
                  waits, retryPc, retryResult, svars, mvars >>

RetryNext ==
  \/ WithRetry
  \/ FnResolves
  \/ FnRejects
  \/ BackoffElapsed
  \/ CancelRetry

RetrySpec == Init /\ [][RetryNext]_vars

\* ---- scheduling ----

\* the enabling conditions of the event loop's own steps
MicrotaskQueued == mq # << >>
RequestTimerArmed == mq = << >> /\ \E id \in 1..Len(items) : items[id].timer = "live"
InitTimerArmed == mq = << >> /\ initTimer
RetryTimerArmed == mq = << >> /\ \E r \in 1..Len(runs) : runs[r].phase = "backoff"

\* The event loop runs every queued promise continuation and every armed
\* timer: weak fairness of these steps, each stated with the step's enabling
\* condition. The worker and its responses are under no obligation.
FairSpec ==
  /\ Spec
  /\ ([]<>~MicrotaskQueued \/ []<><<RunMicrotask>>_vars)
  /\ ([]<>~RequestTimerArmed \/ []<><<RequestTimeout>>_vars)
  /\ ([]<>~InitTimerArmed \/ []<><<InitTimeout>>_vars)
  /\ ([]<>~RetryTimerArmed \/ []<><<RestartRetry>>_vars)

\* the service with autoRecover, from construction to destroy() and after,
\* under the event loop's fairness
LifecycleNext ==
  \/ Initialize
  \/ Translate
  \/ ResetService
  \/ RunMicrotask
  \/ WorkerError
  \/ Deliver
  \/ RequestTimeout
  \/ InitTimeout
  \/ PingTimeout
  \/ RestartRetry
  \/ WorkerReceive
  \/ WorkerLoaded
  \/ WorkerResult
  \/ Destroy
  \/ AutoHealthCheck

LifecycleSpec ==
  /\ LifecycleInit /\ [][LifecycleNext]_vars
  /\ WF_vars(RunMicrotask)
  /\ WF_vars(RequestTimeout)
  /\ WF_vars(InitTimeout)
  /\ WF_vars(RestartRetry)

\* ---- properties ----

Calls == 1..Len(outcome)
Items == 1..Len(items)
CallOf(i) == items[i].call
Sent == Range(sentLog)

\* translate envelopes sent to the worker whose request is still unanswered
Outstanding == { i \in Sent : outcome[CallOf(i)] = "pending" }

\* everything submitted has been enqueued and nothing else has happened
Undisturbed ==
  /\ Disturbances = 0
  /\ isInitialized
  /\ Len(items) = Len(outcome)
  /\ \A i \in Items : items[i].timer # "fired"

\* nothing is in flight and the worker has no work
AtRest ==
  /\ mq = << >> /\ initWaiters = << >> /\ initPromise = "none"
  /\ inbox = << >> /\ outbox = << >>
  /\ wLoading = {} /\ wInfer = {} /\ wAborted = {}

Position(q, x) == CHOOSE k \in 1..Len(q) : q[k] = x

C2_Original ==
  ( /\ Undisturbed
    /\ Len(outcome) > maxConcurrentRequests
    /\ \A c \in Calls : outcome[c] = "pending" )
  => /\ Cardinality(Sent) = maxConcurrentRequests
     /\ Len(requestQueue) = Len(outcome) - maxConcurrentRequests

\* C3: with maxConcurrentTranslations = 1, requests submitted with priorities
\* p1 >= p2 >= ... >= pn have their envelopes sent in that order (ties in
\* submission order).
C3_Original ==
  ( /\ maxConcurrentRequests = 1
    /\ Undisturbed /\ AtRest
    /\ \A i, j \in Items : i < j => items[i].priority >= items[j].priority )
  => /\ Sent = Items
     /\ \A i, j \in Items : i < j => Position(sentLog, i) < Position(sentLog, j)

\* C4: dispatch is work-conserving: with the queue non-empty and fewer than
\* maxConcurrentTranslations requests outstanding, the next queued request is
\* dispatched (no idle slot is left unfilled while work is queued).
C4_Original ==
  ( /\ Disturbances = 0 /\ isInitialized
    /\ mq = << >> /\ initWaiters = << >> )
  => ~( requestQueue # << >> /\ Cardinality(Outstanding) < maxConcurrentRequests )

\* C5: a request whose timeout fires is rejected with TRANSLATION_TIMEOUT and
\* from then on its id is in neither the request queue nor the active set.
C5_Timeout ==
  \A i \in Items :
    items[i].timer = "fired" =>
      /\ outcome[CallOf(i)] = TimeoutError
      /\ i \notin Range(requestQueue)
      /\ i \notin activeRequests

\* one request timed out after it was dispatched, another while still queued
C5_Witness ==
  /\ gen = 1
  /\ \E i \in Items : items[i].timer = "fired" /\ i \in Sent
  /\ \E j \in Items : items[j].timer = "fired" /\ j \notin Sent

\* C6: cancelTranslation(id) of a queued request removes it from the queue and
\* rejects its future with CANCELLED.
C6_Original ==
  \A c \in 1..Len(cancels) :
    cancels[c].wasQueued =>
      /\ cancels[c].target \notin Range(requestQueue)
      /\ outcome[CallOf(cancels[c].target)] = "CANCELLED"

\* C7: cancelTranslation(id) of a dispatched request: once the worker has
\* acknowledged the cancel, or the local cancel timeout has elapsed, the
\* request's future is rejected.
C7_Original ==
  \A c \in 1..Len(cancels) :
    ( /\ cancels[c].wasDispatched
      /\ cancels[c].result # "pending"
      /\ outbox = << >> /\ wAborted = {} /\ mq = << >> )
    => outcome[CallOf(cancels[c].target)] \notin {"pending", "resolved"}

\* C8: cancelling a live request twice returns true, then false, and the
\* request's future is rejected with CANCELLED.
C8_Original ==
  \A c \in 1..Len(cancels) :
    ( /\ cancels[c].wasQueued \/ cancels[c].wasDispatched
      /\ cancels[c].by = "ack" )
    => IF \E b \in 1..(c - 1) : cancels[b].target = cancels[c].target
         THEN cancels[c].result = "false"
         ELSE /\ cancels[c].result = "true"
              /\ outcome[CallOf(cancels[c].target)] \in {"pending", "CANCELLED"}

\* C9: resetService() rejects every request that is queued or dispatched at
\* the time of the call with the reset error, as part of the reset itself.
C9_Original ==
  \A z \in 1..Len(resets) :
    \A i \in resets[z].victims : outcome[CallOf(i)] = ResetError

\* C10: after a successful restartWorker(recover = true), every request that
\* was queued or dispatched when the worker failed has been re-submitted with
\* a priority higher than its original one.
C10_Original ==
  \A r \in 1..Len(runs) :
    ( /\ runs[r].recover /\ runs[r].phase = "ok"
      /\ runs[r].retries = RestartRetries
      /\ \E v \in runs[r].victims : v \in Range(runs[r].pending)
      /\ \E v \in runs[r].victims : v \notin Range(runs[r].pending) ) =>
      \A v \in runs[r].victims :
        \E j \in Items : items[j].orig = v /\ items[j].priority > items[v].priority

C12_Original ==
  \A r \in 1..Len(runs) :
    (runs[r].recover /\ runs[r].phase = "failed") =>
      \A v \in Range(runs[r].first) : outcome[CallOf(v)] = FatalError

PingCount(q) == Cardinality({ i \in 1..Len(q) : q[i].kind = "ping" })
HealthRuns(h) == { r \in 1..Len(runs) : runs[r].caller = "health" /\ runs[r].callerId = h }

\* the outcome of each health check agrees with the answer to its ping
HealthOutcome ==
  \A h \in 1..Len(healths) :
    /\ healths[h].ping = "pending" => healths[h].phase = "ping" /\ HealthRuns(h) = {}
    /\ healths[h].ping = "true" =>
         /\ HealthRuns(h) = {}
         /\ healths[h].phase \in {"ping", "done"}
         /\ healths[h].phase = "done" => healths[h].result = "true"
    /\ (healths[h].ping = "false" /\ healths[h].phase # "ping") =>
         \E r \in HealthRuns(h) :
           /\ runs[r].recover
           /\ healths[h].phase = "done" <=> runs[r].phase \in {"ok", "failed"}
           /\ runs[r].phase = "ok" => healths[h].result = "true"
           /\ runs[r].phase = "failed" => healths[h].result = "false"

\* a ping envelope is sent by a checkWorkerHealth() call, one per call
OnePing ==
  /\ Len(healths') > Len(healths) => PingCount(inbox') = PingCount(inbox) + 1
  /\ PingCount(inbox') > PingCount(inbox) => Len(healths') = Len(healths) + 1

C14_Original ==
  \A k \in 1..Len(inits) :
    inits[k].afterFailure =>
      /\ inits[k].sent
      /\ inits[k].result # InitTimeoutError

\* C15: once the future of a request has settled, its id is in none of the
\* scheduler's live structures: the request queue, the active set and the
\* pending-request table.
C15_Original ==
  \A i \in Items :
    outcome[CallOf(i)] # "pending" =>
      /\ i \notin Range(requestQueue)
      /\ i \notin activeRequests
      /\ MapIndex(requestMap, "t", i) = 0

\* the next envelope from the worker matches no entry of requestMap
UnmatchedNext ==
  /\ mq = << >> /\ outbox # << >>
  /\ MapIndex(requestMap, Head(outbox).kind, Head(outbox).id) = 0

\* the step in which port.onmessage takes the next envelope
DeliverStep ==
  /\ mq = << >> /\ outbox # << >>
  /\ outbox' = Tail(outbox) /\ inbox' = inbox /\ gen' = gen

ProgressAt(r) == { k \in 1..Len(r.out) : r.out[k].type = "PROGRESS" }
ResultAt(r) == { k \in 1..Len(r.out) : r.out[k].type = "RESULT" }

\* C17: the progress values the worker emits for one request, in emission
\* order over the model-loading and translating phases together, are
\* non-decreasing and within [0, 100]; for a successful request the last
\* one is 100 and comes before the result envelope.
C17_Original ==
  \A id \in DOMAIN requests :
    LET r == requests[id]
    IN /\ \A k \in ProgressAt(r) : r.out[k].value \in 0..100
       /\ \A j, k \in ProgressAt(r) : j < k => r.out[j].value <= r.out[k].value
       /\ \A k \in ResultAt(r) :
            /\ k > 1
            /\ r.out[k - 1].type = "PROGRESS" /\ r.out[k - 1].value = 100

TerminalAt(r) == { k \in 1..Len(r.out) : r.out[k].type \in {"RESULT", "ERROR"} }

\* C18: for every translate envelope it receives the worker emits exactly
\* one terminal envelope (a result or an error) with the request's id, and
\* no further terminal envelope for that id follows.
C18_Original ==
  \A id \in DOMAIN requests :
    /\ Cardinality(TerminalAt(requests[id])) <= 1
    /\ requests[id].pc = "done" => Cardinality(TerminalAt(requests[id])) = 1

CachedKeys(c) == { c[i].key : i \in 1..Len(c) }

\* a request served from the cache never sees the loader
HitNeverLoads ==
  \A id \in DOMAIN requests :
    requests[id].hit =>
      /\ requests[id].pc # "load"
      /\ LoadReports(requests[id]) = {}
      /\ id \notin loaderRequests

\* the step in which getPipeline finds its key in the cache
HitStep ==
  \A id \in DOMAIN requests' \ DOMAIN requests :
    LET r == requests'[id]
        i == CacheIndex(pipelines, r.key)
    IN (r.pc # "done" /\ modelConfig.cacheModels /\ i # 0) =>
         /\ r.hit /\ r.pc = "infer"
         /\ r.pipe = pipelines[i].pipe
         /\ pipelines' = pipelines
         /\ loadingProgress' = loadingProgress
         /\ loaderRequests' = loaderRequests

\* C19: with caching enabled, getPipeline for a key that is in the cache
\* returns the cached callable itself, starts no load, never invokes the
\* progress callback and leaves the cache and its order unchanged.
C19_CacheHit == []HitNeverLoads /\ [][HitStep]_vars

\* a request was served the older of two cached pipelines
C19_Witness ==
  \E id \in DOMAIN requests :
    /\ requests[id].hit
    /\ Len(pipelines) >= 2
    /\ pipelines[1].key = requests[id].key
    /\ pipelines[1].pipe = requests[id].pipe

\* the load of some request completes in this step
LoadCompletes ==
  \E id \in DOMAIN requests \cap DOMAIN requests' :
    requests[id].pc = "load" /\ requests'[id].pc = "infer"

\* C20: eviction is FIFO by insertion: when a newly loaded key is inserted
\* into a full cache, the entry inserted earliest is the one removed and the
\* others keep their order, whichever entry was read most recently.
C20_FifoEviction ==
  [][ /\ LoadCompletes =>
           \A i \in 1..Len(pipelines) :
             pipelines[i].key \notin CachedKeys(pipelines') => i = 1
      /\ ( /\ CachedKeys(pipelines') \ CachedKeys(pipelines) # {}
           /\ Len(pipelines) >= modelConfig.maxCacheSize ) =>
            /\ Len(pipelines') = Len(pipelines)
            /\ Head(pipelines).key \notin CachedKeys(pipelines')
            /\ \A i \in 2..Len(pipelines) : pipelines'[i - 1] = pipelines[i] ]_vars

\* the entry read most recently has been evicted from a full cache
C20_Witness ==
  /\ lastRead.model # 0
  /\ lastRead \notin CachedKeys(pipelines)
  /\ incidents = 0
  /\ Len(pipelines) = modelConfig.maxCacheSize

\* C21: no cache key is at the same time present in the pipeline cache and
\* present in the loading-progress table, in any reachable state of the
\* ModelManager.
C21_Original ==
  \A i \in 1..Len(pipelines) : pipelines[i].key \notin DOMAIN loadingProgress

\* the options of the backoff scenario: three retries from 1000 ms doubling,
\* the default predicate, the default maxDelay or none
BackoffCase ==
  /\ retryPc # "idle"
  /\ retryOptions.maxRetries = 3
  /\ retryOptions.retryDelay = 1000
  /\ retryOptions.retryMultiplier = [num |-> 2, den |-> 1]
  /\ retryOptions.maxDelay \in {0, DefaultMaxDelay}
  /\ retryOptions.shouldRetry = "none"

\* C22: with maxRetries = 3, retryDelay = 1000 and retryMultiplier = 2 the
\* wait before retry k is 1000 * 2^(k-1) ms plus a jitter in [0, 300), and
\* when every invocation fails with a retryable error the fourth failure is
\* surfaced to the caller.
C22_Backoff ==
  BackoffCase =>
    /\ Len(waits) <= 3
    /\ \A k \in 1..Len(waits) :
         /\ waits[k] >= 1000 * Pow(2, k - 1)
         /\ waits[k] < 1000 * Pow(2, k - 1) + 300
    /\ (retryPc = "rejected" /\ isErrorRecoverable(retryResult.type)) =>
         /\ invocations = 4
         /\ Len(waits) = 3
         /\ retryResult = thrown

\* the fourth retryable failure has been surfaced
C22_Witness ==
  /\ BackoffCase
  /\ retryPc = "rejected"
  /\ invocations = 4
  /\ retryResult.type = "WORKER_ERROR"
  /\ waits[3] >= 4000

\* C23: when the operation fails on every attempt, withRetry invokes it
\* exactly maxRetries + 1 times and then rejects with the error thrown by
\* the last invocation.
C23_Original ==
  retryPc = "rejected" =>
    /\ invocations = retryOptions.maxRetries + 1
    /\ retryResult = thrown

\* only maxRetries and the delay are given: the default multiplier,
\* maxDelay and predicate
DefaultCase ==
  /\ retryPc # "idle"
  /\ retryOptions.retryMultiplier = DEFAULT_RETRY_OPTIONS.retryMultiplier
  /\ retryOptions.maxDelay = DEFAULT_RETRY_OPTIONS.maxDelay
  /\ retryOptions.shouldRetry = "none"

\* C24: with the default options apart from maxRetries and the delay, an
\* operation that fails k <= maxRetries times with an ordinary Error and
\* then succeeds is retried until that success, and withRetry resolves with
\* the success value after exactly k + 1 invocations.
C24_Original ==
  (DefaultCase /\ ordinary) =>
    /\ retryPc = "rejected" => attempt > retryOptions.maxRetries
    /\ retryPc = "resolved" =>
         /\ retryResult = Outcome("Success")
         /\ invocations = attempt + 1

C26_Original ==
  cancelledAt # 0 =>
    /\ invocations = cancelledAt
    /\ retryPc = "rejected"
    /\ retryResult.type = "CANCELLED"

C28_Original ==
  \A c \in Calls :
    inputs[c] # "ok" =>
      \A i \in Items : CallOf(i) = c =>
        /\ i \notin Range(requestQueue)
        /\ i \notin activeRequests
        /\ i \notin Sent

\* C29: with a fixed configuration the active-request count
\* (activeRequests.size, which getServiceStatus() reports) is at most
\* maxConcurrentTranslations in every reachable state.
C29_ActiveBound == Cardinality(activeRequests) <= maxConcurrentRequests

\* the limit is used up while two requests wait in the queue
C29_Witness ==
  /\ Cardinality(activeRequests) = maxConcurrentRequests
  /\ Len(requestQueue) >= 2

\* C30: a dispatched request stays in the active set from the sending of its
\* translate envelope until its result or error envelope arrives, it is
\* cancelled or it times out; sending the envelope does not remove it.
C30_Original ==
  Undisturbed => \A i \in Outstanding : i \in activeRequests

\* the attempts a restartWorker run has started
Attempts(r) == RestartRetries - runs[r].retries + 1

\* a run makes at most four attempts, waits 1000, 2000 and 4000 ms before
\* the retries, and returns false only after the fourth attempt has failed
RestartBounded ==
  \A r \in 1..Len(runs) :
    /\ Attempts(r) \in 1..4
    /\ Len(runs[r].waits) = IF runs[r].phase = "backoff" THEN Attempts(r)
                                                          ELSE Attempts(r) - 1
    /\ \A k \in 1..Len(runs[r].waits) :
         k <= 3 /\ runs[r].waits[k] = << 1000, 2000, 4000 >>[k]
    /\ runs[r].phase = "failed" => Attempts(r) = 4

RestartsDone == \A r \in 1..Len(runs) : runs[r].phase \in {"ok", "failed"}

\* C31: a restartWorker run always terminates: it makes at most 4 restart
\* attempts (the first plus 3 retries, after waits of 1000, 2000 and 4000
\* ms), returns true as soon as an attempt succeeds or false after the fourth
\* failure, and never retries indefinitely.
C31_RestartTerminates == []RestartBounded /\ []<>RestartsDone

\* a run has returned false after three backoff waits
C31_Witness ==
  \E r \in 1..Len(runs) :
    /\ runs[r].phase = "failed"
    /\ runs[r].waits = << 1000, 2000, 4000 >>

\* the requestMap entry the next envelope is addressed to, 0 if there is none
NextEntry == MapIndex(requestMap, Head(outbox).kind, Head(outbox).id)

\* what the delivery of the next envelope may settle: only the future its id
\* belongs to, and nothing at all when it is a progress envelope
OnlyItsOwn ==
  LET m == Head(outbox)
      e == requestMap[NextEntry]
      addressed(kind, owner) ==
        /\ m.type # "PROGRESS" /\ NextEntry # 0
        /\ e.kind = kind /\ e.owner = owner
  IN /\ \A c \in Calls :
          outcome'[c] # outcome[c] =>
            \E i \in Items : addressed("t", i) /\ CallOf(i) = c
     /\ \A k \in 1..Len(cancels) :
          cancels'[k].result # cancels[k].result => addressed("cancel", k)
     /\ \A h \in 1..Len(healths) :
          healths'[h].ping # healths[h].ping => addressed("ping", h)
     /\ (initPromise' # initPromise \/ isInitialized' # isInitialized) =>
          addressed("init", 0)
     /\ \A i \in Items :
          (addressed("t", i) /\ m.type \in {"RESULT", "ERROR"}) =>
            outcome'[CallOf(i)] # "pending"
     /\ m.type = "PROGRESS" => requestMap' = requestMap

\* C32: envelopes of different correlation ids interleave without
\* cross-talk: a result or error envelope with id X settles the future of
\* request X and of no other request, and a progress envelope settles no
\* future, whatever envelopes of other outstanding requests surround it.
C32_NoCrossTalk == [][DeliverStep => OnlyItsOwn]_vars

\* a cancel request has been answered while its target is still awaiting the
\* worker, and a progress envelope of the target is the next to arrive
C32_Witness ==
  /\ mq = << >> /\ outbox # << >>
  /\ Head(outbox).type = "PROGRESS"
  /\ NextEntry # 0
  /\ outcome[CallOf(Head(outbox).id)] = "pending"
  /\ \E k \in 1..Len(cancels) :
       /\ cancels[k].by = "ack"
       /\ cancels[k].target = Head(outbox).id

\* C33: the number of cached pipelines never exceeds the maxCacheSize in
\* force, after any sequence of getPipeline completions, removeFromCache,
\* clearCache and setConfig calls, a setConfig that lowers maxCacheSize
\* included.
C33_Original == Len(pipelines) <= modelConfig.maxCacheSize

\* the load of request id completes in this step, for a key another load has
\* put into the cache in the meantime
LaterLoadDone(id) ==
  /\ id \in DOMAIN requests /\ id \in DOMAIN requests'
  /\ requests[id].pc = "load" /\ requests'[id].pc = "infer"
  /\ modelConfig.cacheModels
  /\ requests[id].key \in CachedKeys(pipelines)

\* C34: when two concurrent getPipeline calls for the same uncached key
\* both load it, the load that completes later overwrites the cache entry
\* of the key with its callable, the cache holds exactly one entry for the
\* key, and the overwrite evicts no other key, also when the cache is at
\* capacity.
C34_Original ==
  [][ \A id \in 1..MaxRequests :
        LaterLoadDone(id) =>
          /\ Cardinality({ i \in 1..Len(pipelines') :
                             pipelines'[i].key = requests[id].key }) = 1
          /\ pipelines'[CacheIndex(pipelines', requests[id].key)].pipe = id
          /\ CachedKeys(pipelines') = CachedKeys(pipelines) ]_vars

\* the ids ModelManager.activeRequests tracks are those of the loads in
\* progress that were not cancelled
TrackedWhileLoading ==
  \A id \in DOMAIN requests :
    id \in loaderRequests <=> (requests[id].pc = "load" /\ ~requests[id].aborted)

\* cancelRequest answered true for the load of id, and the load settles
CancelledLoadSettles(id) ==
  /\ id \in DOMAIN requests /\ id \in DOMAIN requests'
  /\ requests[id].pc = "load" /\ requests[id].aborted
  /\ requests'[id].pc # "load"

\* C35: cancelRequest(requestId) answers true exactly for a load in progress
\* that getPipeline started with that id, and that load then rejects with the
\* abort error and puts nothing into the cache; a settled getPipeline is no
\* longer tracked.
C35_Original ==
  /\ []TrackedWhileLoading
  /\ [][ \A id \in 1..MaxRequests :
           CancelledLoadSettles(id) =>
             /\ requests'[id].pc = "done"
             /\ requests'[id].out[Len(requests'[id].out)] = Env("ERROR", "none", AbortedError)
             /\ pipelines' = pipelines ]_vars

\* the load of id, not cancelled, ends in this step without a pipeline
LoadFails(id) ==
  /\ id \in DOMAIN requests /\ id \in DOMAIN requests'
  /\ requests[id].pc = "load" /\ ~requests[id].aborted
  /\ requests'[id].pc = "done"

\* C36: a load that fails for another reason than an abort rejects with
\* MODEL_LOAD_FAILED, leaves the cache as it is, and leaves behind neither the
\* loading-progress entry of its key nor the active-request entry of its id.
C36_LoadFailure ==
  [][ \A id \in 1..MaxRequests :
        LoadFails(id) =>
          /\ requests'[id].out[Len(requests'[id].out)]
                = Env("ERROR", "none", "MODEL_LOAD_FAILED")
          /\ pipelines' = pipelines
          /\ requests[id].key \notin DOMAIN loadingProgress'
          /\ id \notin loaderRequests' ]_vars

\* a load has failed while the cache held a pipeline and another load of the
\* same key was in progress
C36_Witness ==
  \E id \in DOMAIN requests, other \in DOMAIN requests :
    /\ requests[id].pc = "done"
    /\ requests[id].out = << Env("ERROR", "none", "MODEL_LOAD_FAILED") >>
    /\ pipelines # << >>
    /\ other # id
    /\ requests[other].pc = "load"
    /\ requests[other].key = requests[id].key

\* the init envelopes on their way to the worker and the ready envelopes
\* that answer them on their way back
InitEnvelopes ==
  Cardinality({ k \in 1..Len(inbox) : inbox[k].type = "INIT" /\ inbox[k].kind = "init" })
    + Cardinality({ k \in 1..Len(outbox) : outbox[k].type = "READY" /\ outbox[k].kind = "init" })

\* one attempt in flight has one envelope, one table entry and one timer
SingleFlight ==
  /\ initPromise = "pending" => InitEnvelopes <= 1
  /\ MapIndex(requestMap, "init", 0) # 0 => initPromise = "pending" /\ initTimer
  /\ initWaiters # << >> => initPromise = "pending"
  /\ isInitialized => initPromise = "none"

\* the awaiters of the attempt that leave it in this step all continue with
\* one and the same outcome, and with success only when the handler takes a
\* ready envelope that carries the id of the attempt's table entry
SharedOutcome ==
  LET leaving == { w \in Range(initWaiters) : w \notin Range(initWaiters') }
      byReady == /\ DeliverStep
                 /\ Head(outbox) = Resp("READY", "init", 0, "ok")
                 /\ MapIndex(requestMap, "init", 0) # 0
  IN /\ leaving # {} =>
          /\ leaving = Range(initWaiters)
          /\ \E r \in {"ok", InitTimeoutError, CrashError} :
               /\ \A w \in leaving : Task(w.k, w.a, w.b, r) \in Range(mq')
               /\ r = "ok" <=> byReady
     /\ (isInitialized' /\ ~isInitialized) => byReady

\* initialize() called on the initialized service
AlreadyInitialized ==
  (Len(inits') = Len(inits) + 1 /\ isInitialized) =>
    /\ inbox' = inbox /\ requestMap' = requestMap
    /\ isInitialized' /\ initPromise' = initPromise
    /\ mq' = << Task("user", Len(inits'), 0, "ok") >>
    /\ ~inits'[Len(inits')].sent

WorkerErrorStep == workerErrors' = workerErrors + 1

\* what the reject callback of entry e, called with the worker error, leaves
\* behind: a pending future ends with that error, a settled one stays as it is
RejectedByCrash(e) ==
  IF e.kind = "t"
    THEN LET c == items[e.owner].call
         IN /\ outcome'[c] = IF outcome[c] = "pending" THEN CrashError ELSE outcome[c]
            /\ items'[e.owner].timer # "live"
  ELSE IF e.kind = "init"
    THEN \A w \in Range(initWaiters) : Task(w.k, w.a, w.b, CrashError) \in Range(mq')
  ELSE IF e.kind = "cancel"
    THEN /\ ~cancels'[e.owner].timer
         /\ cancels'[e.owner].result =
              IF cancels[e.owner].result = "pending" THEN "rejected"
              ELSE cancels[e.owner].result
  ELSE /\ ~healths'[e.owner].timer
       /\ healths'[e.owner].ping =
            IF healths[e.owner].ping = "pending" THEN "false" ELSE healths[e.owner].ping

\* the calls whose future an entry of the table stands for
CallsInTable == { items[requestMap[k].owner].call :
                    k \in { j \in 1..Len(requestMap) : requestMap[j].kind = "t" } }

C39_Original ==
  []<>(destroyed => \A c \in Calls : outcome[c] # "pending")

\* C40: at most one periodic health-check timer is installed at any time, and
\* after destroy() no health check starts and no worker is created.
C40_Original ==
  /\ [](healthTimers <= 1)
  /\ [][destroyed => (Len(healths') = Len(healths) /\ gen' = gen)]_vars


====
